---- MODULE Spec2Model ----
(***************************************************************************)
(* Invoice reminder utility (Samihaynes/dataFilter).                       *)
(*                                                                         *)
(* Two front ends share one data model:                                    *)
(*   - the React component InvoiceNotifierApp (invoice_notifier_app.jsx):  *)
(*     state rows / sending / feedback, handlers handleFile,               *)
(*     toggleExclude, selectAllOverdue, sendReminders, export;             *)
(*   - the plain page script app.js: state parsedRows,                     *)
(*     sendBtn.disabled, feedback.textContent, handlers of parseBtn,       *)
(*     resultsTableBody, sendBtn, exportBtn.                               *)
(* A session runs one of the two pages (variable app).                     *)
(*                                                                         *)
(* Abstractions.  Dates are day numbers (days since 1970-01-01, UTC, the   *)
(* page's time zone being UTC); the time of day of `new Date()` is later   *)
(* than the time of day of any cell.  A value that may be null / NaN is a  *)
(* sequence of length 0 or 1.  Header detection (mapColumns / findKey) is  *)
(* not modelled: a sheet row arrives with its logical cells.  A text that   *)
(* is rendered into a message is a sequence of symbols: each of the        *)
(* characters { } $ & ` ' is a symbol of its own, and a run of other        *)
(* characters ("Bonjour ", "name") is one symbol.                          *)
(*                                                                         *)
(* Spec is a whole session of either page on small sheets; SpecImport runs *)
(* the import handlers alone over every date cell, paid flag and           *)
(* threshold text; SpecRender runs the React page's template editor,       *)
(* import and send over every short template and every kind of field text. *)
(***************************************************************************)
EXTENDS Integers, Sequences, FiniteSets, TLC

VARIABLES
    app,              \* which page runs: "react" or "appjs"
    rows,             \* React state rows
    sending,          \* React state sending
    feedback,         \* React state feedback
    messageTemplate,  \* React state messageTemplate
    parsedRows,       \* app.js global parsedRows
    sendBtnDisabled,  \* app.js sendBtn.disabled
    feedbackText,     \* app.js feedback.textContent
    json,             \* the sheet decoded by the last successful import
    pending,          \* number of fetch requests in flight
    lastOp            \* the handler that ran last, with what it emitted

reactVars == <<rows, sending, feedback, messageTemplate>>
appVars == <<parsedRows, sendBtnDisabled, feedbackText>>
vars == <<app, rows, sending, feedback, messageTemplate, parsedRows,
          sendBtnDisabled, feedbackText, json, pending, lastOp>>

----------------------------------------------------------------------------
(* Bounds *)

MaxRows == 2        \* rows of an imported sheet
MaxPending == 2     \* cap on fetch requests in flight
MaxPieces == 2      \* pieces of a message template typed into the textarea

----------------------------------------------------------------------------
(* null, NaN and undefined *)

Null == <<>>
Some(x) == <<x>>
IsNull(v) == v = <<>>
Val(v) == v[1]

----------------------------------------------------------------------------
(* Calendar of the JavaScript Date object (proleptic Gregorian, UTC) *)

MsPerDay == 86400000

\* new Date(year, month0 + 1, day) / Date.parse("YYYY-MM-DD"): the day number
DaysFromCivil(y, m, d) ==
    LET yy  == IF m <= 2 THEN y - 1 ELSE y
        era == yy \div 400
        yoe == yy - era * 400
        mp  == IF m > 2 THEN m - 3 ELSE m + 9
        doy == (153 * mp + 2) \div 5 + d - 1
        doe == yoe * 365 + yoe \div 4 - yoe \div 100 + doy
    IN  era * 146097 + doe - 719468

\* toISOString().slice(0,10) / format(d, 'yyyy-MM-dd'): <<year, month, day>>
CivilFromDays(z) ==
    LET zz  == z + 719468
        era == zz \div 146097
        doe == zz - era * 146097
        yoe == (doe - doe \div 1460 + doe \div 36524 - doe \div 146096) \div 365
        doy == doe - (365 * yoe + yoe \div 4 - yoe \div 100)
        mp  == (5 * doy + 2) \div 153
        d   == doy - (153 * mp + 2) \div 5 + 1
        m   == IF mp < 10 THEN mp + 3 ELSE mp - 9
        y   == yoe + era * 400
    IN  <<IF m <= 2 THEN y + 1 ELSE y, m, d>>

\* `new Date()` in the import handlers: the session runs on 2021-02-01
Today == DaysFromCivil(2021, 2, 1)

----------------------------------------------------------------------------
(* Cell values of a decoded sheet *)

NumberCell(n) == [k |-> "number", n |-> n, ymd |-> <<0, 0, 0>>]  \* the number n
NumStrCell(n) == [k |-> "numstr", n |-> n, ymd |-> <<0, 0, 0>>]  \* the string of the digits of n
DateCell(y, m, d) == [k |-> "Date", n |-> 0, ymd |-> <<y, m, d>>] \* a native Date
IsoCell(y, m, d) == [k |-> "iso", n |-> 0, ymd |-> <<y, m, d>>]   \* "YYYY-MM-DD"
DmyCell(d, m, y) == [k |-> "dmy", n |-> 0, ymd |-> <<y, m, d>>]   \* "DD/MM/YYYY", DD > 12
TextCell == [k |-> "text", n |-> 0, ymd |-> <<0, 0, 0>>]           \* "n/a"
EmptyCell == [k |-> "empty", n |-> 0, ymd |-> <<0, 0, 0>>]         \* '' (defval)

\* JavaScript truthiness of a cell: '' and 0 are falsy
Truthy(c) == ~(c.k = "empty" \/ (c.k = "number" /\ c.n = 0))

\* Number(c.toString()): NaN is Null
ToNumber(c) ==
    CASE c.k \in {"number", "numstr"} -> Some(c.n)
      [] c.k = "empty" -> Some(0)
      [] OTHER -> Null

\* The host's Date parser on a string that is not an ISO date is
\* implementation-defined: "v8" reads a bare 5-digit number as a year and
\* rejects a day-first date; "strict" rejects both.
Engines == {"v8", "strict"}

\* Date.parse(s) for a string cell: the day number, or Null for NaN
DateParse(c, engine) ==
    CASE c.k = "iso" -> Some(DaysFromCivil(c.ymd[1], c.ymd[2], c.ymd[3]))
      [] c.k = "numstr" /\ engine = "v8" -> Some(DaysFromCivil(c.n, 1, 1))
      [] OTHER -> Null

\* new Date(val): a number is milliseconds since 1970-01-01
NewDate(c, engine) ==
    CASE c.k = "number" -> Some(c.n \div MsPerDay)
      [] c.k = "Date" -> Some(DaysFromCivil(c.ymd[1], c.ymd[2], c.ymd[3]))
      [] OTHER -> DateParse(c, engine)

----------------------------------------------------------------------------
(* Date normalizers *)

\* Days from 1899-12-30 (spreadsheet serial 0) to 1970-01-01
SerialEpochOffset == 25569

\* app.js parseDateMaybe(val): the Date as a day number, or Null
parseDateMaybe(val, engine) ==
    IF ~Truthy(val) THEN Null
    ELSE IF val.k = "Date" THEN Some(DaysFromCivil(val.ymd[1], val.ymd[2], val.ymd[3]))
    ELSE LET d == NewDate(val, engine) IN
         IF ~IsNull(d) THEN d
         ELSE IF val.k = "dmy"
              THEN LET year == val.ymd[1] IN
                   Some(DaysFromCivil(IF year < 100 THEN 2000 + year ELSE year,
                                      val.ymd[2], val.ymd[3]))
              ELSE Null

\* handleFile's inline parsing of rawDate into parsedDate
ReactParsedDate(rawDate, engine) ==
    IF ~Truthy(rawDate) THEN Null
    ELSE IF rawDate.k = "Date"
         THEN Some(DaysFromCivil(rawDate.ymd[1], rawDate.ymd[2], rawDate.ymd[3]))
    ELSE LET num == ToNumber(rawDate) IN
         IF ~IsNull(num) THEN Some(Val(num) - SerialEpochOffset)
         ELSE DateParse(rawDate, engine)

----------------------------------------------------------------------------
(* Strings that the code inspects: sequences of characters *)

Lower(c) == CASE c = "Y" -> "y" [] c = "E" -> "e" [] c = "S" -> "s"
              [] c = "N" -> "n" [] c = "O" -> "o" [] OTHER -> c
toLowerCase(s) == [i \in 1..Len(s) |-> Lower(s[i])]
startsWith(s, c) == Len(s) > 0 /\ s[1] = c

\* handleFile: paid && paid.toString().toLowerCase().startsWith('y')
ReactPaidAffirmative(paid) == paid # <<>> /\ startsWith(toLowerCase(paid), "y")

----------------------------------------------------------------------------
(* Message template *)

\* The token of a field in a template: '{{name}}', '{{invoice}}', ...
Placeholder(field) == <<"{", "{", field, "}", "}">>

\* useState(`Bonjour {{name}}, ...`): the initial messageTemplate
DefaultTemplate ==
    <<"Bonjour ">> \o Placeholder("name")
      \o <<",\n\nNotre systeme indique que la facture #">> \o Placeholder("invoice")
      \o <<" d", "'", "un montant de ">> \o Placeholder("amount")
      \o <<" est en retard de ">> \o Placeholder("days")
      \o <<" jours. Merci de regulariser votre paiement des que possible.\n\nCordialement,\nVotre entreprise">>

\* The symbol of the character U+0060 (grave accent), which a string literal
\* of this module cannot hold
Grave == "U+0060"

\* String.prototype.indexOf: where pattern first occurs in s, 0 when nowhere
IndexOf(s, pattern) ==
    LET hits == {i \in 1..(Len(s) - Len(pattern) + 1) :
                    SubSeq(s, i, i + Len(pattern) - 1) = pattern}
    IN  IF hits = {} THEN 0 ELSE CHOOSE i \in hits : \A j \in hits : i <= j

\* GetSubstitution of String.prototype.replace for a string pattern: in the
\* replacement text $$ is a dollar sign, $& the matched text, $` the text
\* before the match and $' the text after it; any other $ stands for itself
RECURSIVE GetSubstitution(_, _, _, _)
GetSubstitution(matched, before, after, replacement) ==
    IF replacement = <<>> THEN <<>>
    ELSE IF Len(replacement) >= 2 /\ replacement[1] = "$"
                /\ replacement[2] \in {"$", "&", Grave, "'"}
         THEN (CASE replacement[2] = "$" -> <<"$">>
                 [] replacement[2] = "&" -> matched
                 [] replacement[2] = Grave -> before
                 [] OTHER -> after)
              \o GetSubstitution(matched, before, after,
                                 SubSeq(replacement, 3, Len(replacement)))
         ELSE <<replacement[1]>>
              \o GetSubstitution(matched, before, after, Tail(replacement))

\* s.replace(pattern, replacement) with a string pattern: the first occurrence
\* only
replace(s, pattern, replacement) ==
    LET pos == IndexOf(s, pattern) IN
    IF pos = 0 THEN s
    ELSE LET before == SubSeq(s, 1, pos - 1)
             after == SubSeq(s, pos + Len(pattern), Len(s))
         IN  before \o GetSubstitution(pattern, before, after, replacement) \o after

\* ToString of the days field handed to replace: a number, or null
DaysText(days) == IF IsNull(days) THEN <<"null">> ELSE <<ToString(Val(days))>>

\* sendReminders: the message of record x
ReactMessage(template, x) ==
    replace(replace(replace(replace(template,
                                    Placeholder("name"), x.clientName),
                            Placeholder("invoice"), x.invoiceNumber),
                    Placeholder("amount"), x.amount),
            Placeholder("days"), DaysText(x.days))

----------------------------------------------------------------------------
(* Threshold *)

DefaultDaysLimit == 30     \* app.js: Number(...) || 30
ReactDaysLimit == 30       \* handleFile: days > 30

\* The text of the #daysLimit input
DaysLimitValues == {"", "0", "45", "abc"}

\* Number(value) of the input's text; NaN is Null
NumberOfInput(v) ==
    CASE v = "" -> Some(0) [] v = "0" -> Some(0) [] v = "45" -> Some(45)
      [] OTHER -> Null

\* app.js: const daysLimit = Number(document.getElementById('daysLimit').value) || 30
DaysLimitOf(v) ==
    LET n == NumberOfInput(v) IN
    IF IsNull(n) \/ Val(n) = 0 THEN DefaultDaysLimit ELSE Val(n)

----------------------------------------------------------------------------
(* Records *)

\* The ISO text of a day, as a cell value
IsoOfDay(day) == [k |-> "iso", n |-> 0, ymd |-> CivilFromDays(day)]

\* handleFile: one element of `parsed`
ReactRecord(r, i, engine) ==
    LET parsedDate == ReactParsedDate(r.date, engine)
        days == IF IsNull(parsedDate) THEN Null ELSE Some(Today - Val(parsedDate))
        overdue == IF IsNull(parsedDate) THEN FALSE
                   ELSE Val(days) > ReactDaysLimit /\ ~ReactPaidAffirmative(r.paid)
    IN  [id |-> i,
         clientName |-> r.client,
         email |-> r.email,
         invoiceNumber |-> r.invoice,
         invoiceDate |-> IF IsNull(parsedDate) THEN EmptyCell ELSE IsoOfDay(Val(parsedDate)),
         rawInvoiceDate |-> parsedDate,
         amount |-> r.amount,
         paid |-> r.paid,
         days |-> days,
         overdue |-> overdue,
         excluded |-> FALSE]

\* parseBtn handler: one element of parsedRows
AppRecord(r, i, daysLimit, engine) ==
    LET dt == parseDateMaybe(r.date, engine)
        days == IF IsNull(dt) THEN Null ELSE Some(Today - Val(dt))
        overdue == ~IsNull(days) /\ Val(days) > daysLimit
    IN  [id |-> i,
         client |-> r.client,
         email |-> r.email,
         invoice |-> r.invoice,
         invoiceDate |-> IF ~IsNull(dt) THEN IsoOfDay(Val(dt))
                         ELSE IF Truthy(r.date) THEN r.date ELSE EmptyCell,
         amount |-> r.amount,
         days |-> days,
         overdue |-> overdue,
         excluded |-> FALSE]

\* Faulty variant: the import appends to the rows instead of replacing them
ReactRecordsAppended(sheet, engine) ==
    rows \o [i \in 1..Len(sheet) |-> ReactRecord(sheet[i], Len(rows) + i, engine)]

ReactRecords(sheet, engine) == [i \in 1..Len(sheet) |-> ReactRecord(sheet[i], i, engine)]
AppRecords(sheet, daysLimit, engine) ==
    [i \in 1..Len(sheet) |-> AppRecord(sheet[i], i, daysLimit, engine)]

----------------------------------------------------------------------------
(* Inputs *)

Emails == {"", "bad", "a@x.io"}

PaidCells == {<<>>, <<"y", "e", "s">>, <<"Y">>, <<"n", "o">>, <<" ", "y", "e", "s">>}

DateCells == {NumberCell(44197), NumberCell(0), NumStrCell(44197),
              DateCell(2021, 1, 1), DateCell(2021, 1, 2), IsoCell(2021, 1, 1),
              DmyCell(22, 1, 2021), TextCell, EmptyCell}

\* Rows of the one-row sheets fed to the import handlers alone
RawRows == [client : {<<"Acme">>}, email : {"a@x.io"}, invoice : {<<"F-1">>},
            date : DateCells, amount : {<<"100">>}, paid : PaidCells]

\* Rows of the sheets of a whole session: 31 days old with each email, and
\* 30 days old
SheetRow(date, email) ==
    [client |-> <<"Acme">>, email |-> email, invoice |-> <<"F-1">>, date |-> date,
     amount |-> <<"100">>, paid |-> <<>>]

SheetRows == {SheetRow(IsoCell(2021, 1, 1), e) : e \in Emails}
                 \cup {SheetRow(IsoCell(2021, 1, 2), "a@x.io")}

\* In a whole session the #daysLimit input is left empty and the host is V8;
\* SpecImport runs the import handlers over every value of both
SessionDaysLimitValues == {""}
SessionEngines == {"v8"}

Sheets == UNION {[1..n -> SheetRows] : n \in 1..MaxRows}

\* What is typed into the template textarea: up to MaxPieces pieces, each a
\* word, a field token, a token of no field, or an opening pair of braces
TemplatePieces ==
    {<<"Cher ">>, <<"{", "{">>, Placeholder("foo")}
        \cup {Placeholder(f) : f \in {"name", "invoice", "amount", "days"}}

RECURSIVE Flatten(_)
Flatten(pieces) == IF pieces = <<>> THEN <<>> ELSE Head(pieces) \o Flatten(Tail(pieces))

Templates == {Flatten(ps) : ps \in UNION {[1..n -> TemplatePieces] : n \in 0..MaxPieces}}

\* Rows of the one-row sheets whose messages are rendered: 31 days old, with
\* a client name that is missing, plain, the token of another field, the end
\* of a token, or a $-pattern of String.prototype.replace
RenderClients ==
    {<<>>, <<"Acme">>, Placeholder("days"), <<"days", "}", "}">>, <<"$", "&">>, <<"R", "$", "$">>}

RenderRows == [client : RenderClients, email : {"a@x.io"},
               invoice : {<<>>, <<"F-1">>}, date : {IsoCell(2021, 1, 1)},
               amount : {<<>>, <<"100">>}, paid : {<<>>}]

\* Ids a toggle may name: those of a full sheet and one that is never present
Ids == 1..(MaxRows + 1)

\* send.php: filter_var($it['email'], FILTER_VALIDATE_EMAIL) on the emails above
FilterValidateEmail(e) == e = "a@x.io"

\* What the send endpoint can answer (send.php, the Express example), or a
\* rejected fetch
Resp(kind, ok, isJson, success, sent, error, msg) ==
    [kind |-> kind, ok |-> ok, isJson |-> isJson, success |-> success,
     sent |-> sent, error |-> error, msg |-> msg]

NoResp == Resp("none", FALSE, FALSE, "undefined", Null, "", "")

Responses ==
    { Resp("neterr", FALSE, FALSE, "undefined", Null, "", "Failed to fetch"),
      Resp("http", TRUE, TRUE, "true", Some(1), "", ""),
      Resp("http", TRUE, TRUE, "false", Null, "Payload invalide", ""),
      Resp("http", TRUE, TRUE, "undefined", Some(1), "", ""),
      Resp("http", FALSE, TRUE, "undefined", Null, "Invalid payload", ""),
      Resp("http", FALSE, FALSE, "undefined", Null, "", "Unexpected token <") }

----------------------------------------------------------------------------
(* Feedback texts and the trace of handlers *)

\* A feedback text: its fixed part, the number and the error text it embeds
Fb(msg, n, err) == [msg |-> msg, n |-> n, err |-> err]
NoFeedback == Fb("", Null, "")

\* The handler that ran last: its name, the text of the #daysLimit input a
\* parse read, the id a toggle named, the items a send posted or the rows an
\* export wrote, and the response a send consumed
Op(name, arg, id, out, resp) ==
    [op |-> name, arg |-> arg, id |-> id, out |-> out, resp |-> resp]

----------------------------------------------------------------------------
(* Initial state: useState(...) defaults, app.js globals *)

Init ==
    /\ app \in {"react", "appjs"}
    /\ rows = <<>>
    /\ sending = FALSE
    /\ feedback = NoFeedback
    /\ messageTemplate = DefaultTemplate
    /\ parsedRows = <<>>
    /\ sendBtnDisabled = FALSE
    /\ feedbackText = NoFeedback
    /\ json = <<>>
    /\ pending = 0
    /\ lastOp = Op("init", "", 0, <<>>, NoResp)

----------------------------------------------------------------------------
(* React: handleFile (reader.onload) *)

\* The file decodes to `sheet`; an empty sheet leaves the rows alone
ReactImport(sheet, engine) ==
    /\ app = "react"
    /\ IF sheet = <<>>
       THEN /\ feedback' = Fb("Aucune ligne trouvee dans le fichier.", Null, "")
            /\ UNCHANGED <<rows, json>>
       ELSE /\ rows' = ReactRecords(sheet, engine)
            /\ feedback' = Fb("lignes importees.", Some(Len(sheet)), "")
            /\ json' = sheet
    /\ lastOp' = Op(IF sheet = <<>> THEN "handleFile:empty" ELSE "handleFile", "", 0, <<>>, NoResp)
    /\ UNCHANGED <<app, sending, messageTemplate, appVars, pending>>

\* read() throws on the file: the catch reports it
ReactImportFails ==
    /\ app = "react"
    /\ feedback' = Fb("Erreur lors de la lecture du fichier: ", Null, "Unsupported file")
    /\ lastOp' = Op("handleFile:error", "", 0, <<>>, NoResp)
    /\ UNCHANGED <<app, rows, sending, messageTemplate, json, appVars, pending>>

----------------------------------------------------------------------------
(* app.js: parseBtn click handler *)

\* The handler awaits f.arrayBuffer() between clearPreview() and the decoding.
\* What it does before the await (clearing the table, the stats and the
\* feedback text, reading the threshold) is read by no other handler, and what
\* it does after it reads nothing another handler writes, so the handler is
\* one step, taken when the file has been read.

\* No file is chosen
AppParseNoFile ==
    /\ app = "appjs"
    /\ feedbackText' = Fb("Choisissez un fichier .xlsx ou .csv", Null, "")
    /\ lastOp' = Op("parse:nofile", "", 0, <<>>, NoResp)
    /\ UNCHANGED <<app, reactVars, parsedRows, sendBtnDisabled, json, pending>>

\* The #daysLimit input holds the text v and the file decodes to `sheet`; an
\* empty sheet leaves parsedRows alone
AppParse(v, sheet, engine) ==
    /\ app = "appjs"
    /\ IF sheet = <<>>
       THEN /\ feedbackText' = Fb("Fichier vide ou non lisible", Null, "")
            /\ UNCHANGED <<parsedRows, json>>
       ELSE /\ parsedRows' = AppRecords(sheet, DaysLimitOf(v), engine)
            /\ json' = sheet
            /\ feedbackText' = NoFeedback
    /\ lastOp' = Op(IF sheet = <<>> THEN "parse:empty" ELSE "parse", v, 0, <<>>, NoResp)
    /\ UNCHANGED <<app, reactVars, sendBtnDisabled, pending>>

----------------------------------------------------------------------------
(* React: the template textarea *)

\* onChange={e => setMessageTemplate(e.target.value)}
setMessageTemplate(value) ==
    /\ app = "react"
    /\ messageTemplate' = value
    /\ lastOp' = Op("setMessageTemplate", "", 0, <<>>, NoResp)
    /\ UNCHANGED <<app, rows, sending, feedback, json, appVars, pending>>

----------------------------------------------------------------------------
(* Selection *)

\* Faulty variant: the id test is lost and every row is flipped
ToggleTargetAny(x, id) == TRUE

\* toggleExclude: x.id === id
ToggleTarget(x, id) == x.id = id

\* React toggleExclude(id)
toggleExclude(id) ==
    /\ app = "react"
    /\ rows' = [i \in 1..Len(rows) |->
                  IF ToggleTarget(rows[i], id)
                  THEN [rows[i] EXCEPT !.excluded = ~rows[i].excluded]
                  ELSE rows[i]]
    /\ lastOp' = Op("toggleExclude", "", id, <<>>, NoResp)
    /\ UNCHANGED <<app, sending, feedback, messageTemplate, json, appVars, pending>>

\* React selectAllOverdue(exclude): the "Inclure tous" / "Exclure tous" buttons
selectAllOverdue(exclude) ==
    /\ app = "react"
    /\ rows' = [i \in 1..Len(rows) |->
                  IF rows[i].overdue
                  THEN [rows[i] EXCEPT !.excluded = exclude]
                  ELSE rows[i]]
    /\ lastOp' = Op("selectAllOverdue", "", 0, <<>>, NoResp)
    /\ UNCHANGED <<app, sending, feedback, messageTemplate, json, appVars, pending>>

\* app.js resultsTableBody change handler for the checkbox with data-id = id
AppToggle(id, checked) ==
    /\ app = "appjs"
    /\ parsedRows' = [i \in 1..Len(parsedRows) |->
                        IF i = CHOOSE j \in 1..(Len(parsedRows) + 1) :
                                 j = Len(parsedRows) + 1 \/
                                 (parsedRows[j].id = id /\
                                  \A h \in 1..(j - 1) : parsedRows[h].id # id)
                        THEN [parsedRows[i] EXCEPT !.excluded = checked]
                        ELSE parsedRows[i]]
    /\ lastOp' = Op("toggle", "", id, <<>>, NoResp)
    /\ UNCHANGED <<app, reactVars, sendBtnDisabled, feedbackText, json, pending>>

----------------------------------------------------------------------------
(* Send *)

\* rows.filter(r => r.overdue && !r.excluded && r.email), in both pages
Sendable(r) == r.overdue /\ ~r.excluded /\ r.email # ""
toSendOf(rs) == SelectSeq(rs, Sendable)

\* sendReminders: one element of the payload
ReactItem(x) ==
    [email |-> x.email, name |-> x.clientName, invoice |-> x.invoiceNumber,
     amount |-> x.amount, days |-> x.days,
     message |-> ReactMessage(messageTemplate, x)]

\* React sendReminders, up to the await of fetch.  The button carries
\* disabled={sending}, and React commits the state updates of a click before
\* the next event is dispatched, so a click reaches the handler only while
\* sending is false.
\* Faulty variant: the button is not disabled while sending
ReactSendAlwaysEnabled == TRUE

ReactSendEnabled == ~sending

sendReminders ==
    /\ app = "react"
    /\ ReactSendEnabled
    /\ LET toSend == toSendOf(rows)
           payload == [i \in 1..Len(toSend) |-> ReactItem(toSend[i])]
       IN  IF Len(toSend) = 0
           THEN /\ feedback' = Fb("Aucun destinataire eligible a l'envoi.", Null, "")
                /\ lastOp' = Op("send:none", "", 0, <<>>, NoResp)
                /\ UNCHANGED <<sending, pending>>
           ELSE /\ pending < MaxPending
                /\ sending' = TRUE
                /\ feedback' = Fb("Envoi en cours...", Null, "")
                /\ pending' = pending + 1
                /\ lastOp' = Op("send", "", 0, payload, NoResp)
    /\ UNCHANGED <<app, rows, messageTemplate, json, appVars>>

\* json.error || fallback
OrElse(text, fallback) == IF text = "" THEN fallback ELSE text

\* What sendReminders shows once response r has arrived
ReactFeedbackOf(r) ==
    IF r.kind = "neterr" \/ ~r.isJson
    THEN Fb("Erreur lors de l'envoi: ", Null, r.msg)
    ELSE IF ~r.ok
    THEN Fb("Erreur lors de l'envoi: ", Null, OrElse(r.error, "Erreur serveur"))
    ELSE Fb("Envoi termine. messages envoyes.",
            IF IsNull(r.sent) THEN Some(0) ELSE r.sent, "")

\* Faulty variant: setSending(false) sits at the end of the try block, not in finally
ReactSendingAfterNoFinally(r) == r.kind = "neterr" \/ ~r.isJson \/ ~r.ok

\* finally { setSending(false) }
ReactSendingAfter(r) == FALSE

\* React sendReminders after the await: try / catch / finally
ReactResponse(r) ==
    /\ app = "react"
    /\ pending > 0
    /\ pending' = pending - 1
    /\ feedback' = ReactFeedbackOf(r)
    /\ sending' = ReactSendingAfter(r)
    /\ lastOp' = Op("response", "", 0, <<>>, r)
    /\ UNCHANGED <<app, rows, messageTemplate, json, appVars>>

\* app.js sendBtn click handler, up to the await of fetch; a disabled button
\* dispatches no click
AppSendEnabled == ~sendBtnDisabled

AppSend ==
    /\ app = "appjs"
    /\ AppSendEnabled
    /\ LET toSend == toSendOf(parsedRows)
       IN  IF Len(toSend) = 0
           THEN /\ feedbackText' = Fb("Aucun destinataire a envoyer.", Null, "")
                /\ lastOp' = Op("send:none", "", 0, <<>>, NoResp)
                /\ UNCHANGED <<sendBtnDisabled, pending>>
           ELSE /\ pending < MaxPending
                /\ sendBtnDisabled' = TRUE
                /\ feedbackText' = Fb("Envoi en cours...", Null, "")
                /\ pending' = pending + 1
                /\ lastOp' = Op("send", "", 0, toSend, NoResp)
    /\ UNCHANGED <<app, reactVars, parsedRows, json>>

\* What the sendBtn handler shows once response r has arrived
AppFeedbackOf(r) ==
    IF r.kind = "neterr" \/ ~r.isJson
    THEN Fb("Erreur reseau: ", Null, r.msg)
    ELSE IF r.success = "true"
    THEN Fb("Envoi termine. emails envoyes.", r.sent, "")
    ELSE Fb("Erreur lors de l'envoi: ", Null, OrElse(r.error, "unknown"))

\* app.js sendBtn click handler after the await: try / catch / finally
AppResponse(r) ==
    /\ app = "appjs"
    /\ pending > 0
    /\ pending' = pending - 1
    /\ feedbackText' = AppFeedbackOf(r)
    /\ sendBtnDisabled' = FALSE
    /\ lastOp' = Op("response", "", 0, <<>>, r)
    /\ UNCHANGED <<app, reactVars, parsedRows, json>>

----------------------------------------------------------------------------
(* Export *)

\* React export button: the rows written to overdue.xlsx
ReactExportRow(r) ==
    [client |-> r.clientName, email |-> r.email, invoice |-> r.invoiceNumber,
     days |-> r.days, amount |-> r.amount]

Exportable(r) == r.overdue /\ ~r.excluded

ReactExport ==
    /\ app = "react"
    /\ LET sel == SelectSeq(rows, Exportable)
       IN  lastOp' = Op("export", "", 0, [i \in 1..Len(sel) |-> ReactExportRow(sel[i])], NoResp)
    /\ UNCHANGED <<app, reactVars, json, appVars, pending>>

\* app.js exportBtn click handler
AppExportRow(r) ==
    [client |-> r.client, email |-> r.email, invoice |-> r.invoice,
     date |-> r.invoiceDate, amount |-> r.amount, days |-> r.days]

AppExport ==
    /\ app = "appjs"
    /\ LET sel == SelectSeq(parsedRows, Exportable)
           toExport == [i \in 1..Len(sel) |-> AppExportRow(sel[i])]
       IN  IF Len(toExport) = 0
           THEN /\ feedbackText' = Fb("Rien a exporter.", Null, "")
                /\ lastOp' = Op("export:none", "", 0, <<>>, NoResp)
           ELSE /\ lastOp' = Op("export", "", 0, toExport, NoResp)
                /\ UNCHANGED feedbackText
    /\ UNCHANGED <<app, reactVars, parsedRows, sendBtnDisabled, json, pending>>

----------------------------------------------------------------------------
(* Specifications *)

\* A whole session of either page, the message template left as it is at
\* construction
Next ==
    \/ \E sheet \in Sheets \cup {<<>>}, e \in SessionEngines : ReactImport(sheet, e)
    \/ ReactImportFails
    \/ AppParseNoFile
    \/ \E v \in SessionDaysLimitValues, sheet \in Sheets \cup {<<>>}, e \in SessionEngines :
          AppParse(v, sheet, e)
    \/ \E id \in Ids : toggleExclude(id)
    \/ \E exclude \in BOOLEAN : selectAllOverdue(exclude)
    \/ \E id \in Ids, checked \in BOOLEAN : AppToggle(id, checked)
    \/ sendReminders
    \/ \E r \in Responses : ReactResponse(r)
    \/ AppSend
    \/ \E r \in Responses : AppResponse(r)
    \/ ReactExport
    \/ AppExport

Spec == Init /\ [][Next]_vars

\* The import handlers alone, on every one-row sheet
NextImport ==
    \/ \E r \in RawRows, e \in Engines : ReactImport(<<r>>, e)
    \/ \E v \in DaysLimitValues, r \in RawRows, e \in Engines : AppParse(v, <<r>>, e)

SpecImport == Init /\ [][NextImport]_vars

\* The React page's template editor, import and send, on every short template
\* and every one-row sheet of RenderRows
NextRender ==
    \/ \E value \in Templates : setMessageTemplate(value)
    \/ \E r \in RenderRows, e \in SessionEngines : ReactImport(<<r>>, e)
    \/ sendReminders

SpecRender == Init /\ [][NextRender]_vars

----------------------------------------------------------------------------
(* Vocabulary of the claims *)

CurrentRows == IF app = "react" THEN rows ELSE parsedRows
CurrentFeedback == IF app = "react" THEN feedback ELSE feedbackText

RECURSIVE TrimLeft(_)
TrimLeft(s) == IF s # <<>> /\ Head(s) = " " THEN TrimLeft(Tail(s)) ELSE s

RECURSIVE TrimRight(_)
TrimRight(s) == IF s # <<>> /\ s[Len(s)] = " " THEN TrimRight(SubSeq(s, 1, Len(s) - 1)) ELSE s

\* The specification's isAffirmative: the trimmed, lowercased flag starts with "y"
IsAffirmative(paid) == startsWith(toLowerCase(TrimRight(TrimLeft(paid))), "y")

\* The threshold the import that ran last classified against
ThresholdUsed == IF app = "react" THEN ReactDaysLimit ELSE DaysLimitOf(lastOp.arg)

\* The threshold the specification asks for: the number supplied, 30 when the
\* input is unset or not a number
ThresholdAsked ==
    IF app = "react" \/ lastOp.arg = "" \/ IsNull(NumberOfInput(lastOp.arg))
    THEN 30
    ELSE Val(NumberOfInput(lastOp.arg))

Imported == lastOp.op \in {"handleFile", "parse"}

\* The specification's eligible set
Eligible(r) == r.overdue /\ ~r.excluded /\ r.email # "" /\ FilterValidateEmail(r.email)
EligibleRows == SelectSeq(CurrentRows, Eligible)

\* The items a send posts for the records rs
ItemsOf(rs) == IF app = "react" THEN [i \in 1..Len(rs) |-> ReactItem(rs[i])] ELSE rs

\* A send that ended in failure: a rejected fetch, or a body that reports
\* success == false with an error text
SendFailed(r) ==
    \/ r.kind = "neterr"
    \/ r.kind = "http" /\ r.isJson /\ r.success = "false" /\ r.error # ""
ErrorOf(r) == IF r.kind = "neterr" THEN r.msg ELSE r.error
ErrorTexts == {"Erreur lors de l'envoi: ", "Erreur reseau: "}

\* Any response but a well-formed success
SendNotSucceeded(r) ==
    r.kind = "neterr" \/ ~r.isJson \/ ~r.ok \/ r.success = "false"

\* Spreadsheet serial n as a day number: serial 0 is 1899-12-30
SerialDay(n) == DaysFromCivil(1899, 12, 30) + n

ExportColumns == {"client", "email", "invoice", "date", "amount", "days"}

\* The fields a template may name, and the string form of each for record x
\* (an empty string when the value is missing)
FieldNames == {"name", "invoice", "amount", "days"}
FieldText(x, field) ==
    CASE field = "name" -> x.clientName
      [] field = "invoice" -> x.invoiceNumber
      [] field = "amount" -> x.amount
      [] OTHER -> IF IsNull(x.days) THEN <<>> ELSE <<ToString(Val(x.days))>>

\* The specification's render(template, record): one pass over the template
\* that replaces every token of a field and copies everything else
RECURSIVE Rendered(_, _)
Rendered(template, x) ==
    IF template = <<>> THEN <<>>
    ELSE IF Len(template) >= 5 /\ \E f \in FieldNames : SubSeq(template, 1, 5) = Placeholder(f)
         THEN FieldText(x, template[3]) \o Rendered(SubSeq(template, 6, Len(template)), x)
         ELSE <<Head(template)>> \o Rendered(Tail(template), x)

----------------------------------------------------------------------------
(* Claims *)

\* C1: after an import, in both pages, a record is overdue iff its ageDays is
\* non-null, exceeds the threshold and its paid flag is not affirmative.
\* (Fails: app.js never reads the paid flag; handleFile does not trim it.)
C1_OverdueIff ==
    Imported =>
        \A i \in 1..Len(CurrentRows) :
            LET r == CurrentRows[i] IN
            r.overdue <=> (/\ ~IsNull(r.days)
                           /\ Val(r.days) > ThresholdUsed
                           /\ ~IsAffirmative(json[i].paid))

\* C2: the batch a send posts is exactly the records that are overdue, not
\* excluded and carry a non-empty, syntactically valid email, and a request is
\* issued iff that set is non-empty.
\* (Fails: the filter tests the email for being non-empty only.)
C2_BatchIsEligible ==
    lastOp.op \in {"send", "send:none"} =>
        /\ lastOp.out = ItemsOf(EligibleRows)
        /\ lastOp.op = "send" <=> EligibleRows # <<>>

\* C3: at most one send request is in flight at any time.
C3_OneInFlight == pending <= 1

\* C3 witness: a request is in flight, there is something a send would post,
\* and the send button is disabled
C3_Witness ==
    /\ app = "react"
    /\ pending = 1
    /\ toSendOf(rows) # <<>>
    /\ ~ReactSendEnabled

\* C4: after a send that failed (rejected fetch, or success == false with an
\* error text, whatever the HTTP status) the feedback is an error message that
\* carries the error, never the completion message.
\* (Fails: sendReminders looks at resp.ok only.)
C4_FailureShown ==
    (lastOp.op = "response" /\ SendFailed(lastOp.resp)) =>
        /\ CurrentFeedback.msg \in ErrorTexts
        /\ CurrentFeedback.err = ErrorOf(lastOp.resp)

\* C5: the step that handles a failed send leaves the records and their
\* excluded flags as they were, issues no request, and clears the busy flag, so
\* a following send is accepted and would post the same records.
C5_FailureFrame ==
    [][(lastOp'.op = "response" /\ SendNotSucceeded(lastOp'.resp)) =>
          /\ rows' = rows
          /\ parsedRows' = parsedRows
          /\ pending' = pending - 1
          /\ ~sending' /\ ~sendBtnDisabled'
          /\ ReactSendEnabled' /\ AppSendEnabled'
          /\ toSendOf(CurrentRows)' = toSendOf(CurrentRows)]_vars

\* C5 witness: a send has just failed with a record excluded and another one
\* ready to be posted again
C5_Witness ==
    /\ lastOp.op = "response" /\ SendNotSucceeded(lastOp.resp)
    /\ toSendOf(CurrentRows) # <<>>
    /\ \E i \in 1..Len(CurrentRows) : CurrentRows[i].excluded

\* C6: after a successful import the records are those of the imported sheet,
\* one per row and in its order, with pairwise distinct ids and none excluded.
C6_ImportReplaces ==
    Imported =>
        /\ Len(CurrentRows) = Len(json)
        /\ \A i \in 1..Len(CurrentRows) :
              LET r == CurrentRows[i] IN
              /\ r.email = json[i].email
              /\ r.amount = json[i].amount
              /\ (IF app = "react" THEN r.clientName ELSE r.client) = json[i].client
              /\ (IF app = "react" THEN r.invoiceNumber ELSE r.invoice) = json[i].invoice
              /\ ~r.excluded
        /\ \A i, j \in 1..Len(CurrentRows) :
              i # j => CurrentRows[i].id # CurrentRows[j].id

\* C6 witness: a two-row sheet is imported while the batch of an earlier
\* import is still in flight
C6_Witness ==
    /\ Imported
    /\ pending = 1
    /\ Len(CurrentRows) = 2

\* C7: a toggle, include-all or exclude-all changes nothing but excluded flags,
\* and a toggle changes no record but the one with the id it names (none when
\* the id is not present).
C7_ToggleFrame ==
    [][/\ lastOp'.op \in {"toggleExclude", "selectAllOverdue", "toggle"} =>
            /\ Len(CurrentRows') = Len(CurrentRows)
            /\ \A i \in 1..Len(CurrentRows) :
                  [CurrentRows'[i] EXCEPT !.excluded = CurrentRows[i].excluded]
                      = CurrentRows[i]
            /\ UNCHANGED <<app, json, pending, sending, sendBtnDisabled,
                           feedback, feedbackText, messageTemplate>>
       /\ lastOp'.op \in {"toggleExclude", "toggle"} =>
            \A i \in 1..Len(CurrentRows) :
                CurrentRows[i].id # lastOp'.id => CurrentRows'[i] = CurrentRows[i]
      ]_vars

\* C7 witness: of two records, the first has just been excluded by a toggle
C7_Witness ==
    /\ lastOp.op = "toggleExclude"
    /\ lastOp.id = 1
    /\ Len(rows) = 2
    /\ rows[1].excluded /\ ~rows[2].excluded

\* C8: the rows an export writes are exactly the eligible records, the ones a
\* send would post in the same state, each with the six columns.
\* (Fails: the export filter does not look at the email, and the React export
\* has no date column.)
C8_ExportIsEligible ==
    lastOp.op = "export" =>
        /\ Len(lastOp.out) = Len(EligibleRows)
        /\ Len(lastOp.out) = Len(toSendOf(CurrentRows))
        /\ \A i \in 1..Len(lastOp.out) :
              /\ DOMAIN lastOp.out[i] = ExportColumns
              /\ i <= Len(EligibleRows) => lastOp.out[i].email = EligibleRows[i].email

\* C9: in both pages a date cell that is a number, or a string that parses
\* fully as a number, normalizes to the day that many days after 1899-12-30.
\* (Fails: parseDateMaybe hands a number to new Date() as milliseconds.)
C9_SerialDate ==
    Imported =>
        \A i \in 1..Len(CurrentRows) :
            json[i].date.k \in {"number", "numstr"} =>
                CurrentRows[i].invoiceDate = IsoOfDay(SerialDay(json[i].date.n))

\* C10: every record of an import is classified against the number of days
\* supplied (0 included), or against 30 when none or no number is supplied.
\* (Fails: Number(value) || 30 turns a supplied 0 into 30.)
C10_ThresholdAsked ==
    Imported =>
        \A i \in 1..Len(CurrentRows) :
            LET r == CurrentRows[i] IN
            /\ r.overdue => (~IsNull(r.days) /\ Val(r.days) > ThresholdAsked)
            /\ (~IsNull(r.days) /\ Val(r.days) > ThresholdAsked /\ ~r.overdue)
                  => IsAffirmative(json[i].paid)

\* C11: the message of every item a send posts is the template with every
\* occurrence of {{name}}, {{invoice}}, {{amount}} and {{days}} replaced by the
\* string form of that record's field, everything else copied verbatim, and
\* the text inserted for a field not substituted again.
\* (Fails: String.prototype.replace with a string pattern replaces the first
\* occurrence only, the four replacements run one after the other over the
\* text the earlier ones inserted, and $-patterns in a field are expanded.)
C11_MessageRendered ==
    lastOp.op = "send" =>
        \A i \in 1..Len(lastOp.out) :
            lastOp.out[i].message = Rendered(messageTemplate, toSendOf(rows)[i])

====
